---- MODULE Spec2Model ----
(***************************************************************************)
(* A model of sella's CartPES (src/sella/peswrapper.py) and of the IRC     *)
(* driver with its trust-region Newton solver (src/sella/irc.py).          *)
(*                                                                         *)
(* Numbers.  Real quantities are fixed-point integers: Scale units make    *)
(* 1.0, and every product and quotient is rounded to the nearest unit, as  *)
(* floating point rounds every operation.  The geometry has two Cartesian  *)
(* coordinates; Hessians are diagonal (the potential is separable and the  *)
(* free basis is a permutation of the axes), so a matrix is the sequence   *)
(* of its diagonal entries, an orthonormal basis is the sequence of the    *)
(* axes its columns are, and None is the empty sequence.                   *)
(***************************************************************************)
EXTENDS Integers, Sequences, FiniteSets, TLC

VARIABLES
    pes,    \* the CartPES object: pos, last, lastlast, neval, H, Hred, lams, vecs
    irc,    \* the IRC object: x0, v0ts, H0, peslast, d1, xi, first and step()'s locals
    pc,     \* where the IRC driver is: "idle", "ready" (between steps), "inner"
    ev,     \* what the last handler did: its name, oracle calls, how it ended
    nuser   \* direct calls on the PES the caller has left

vars == <<pes, irc, pc, ev, nuser>>

-----------------------------------------------------------------------------
(* Fixed-point arithmetic *)

Scale == 1000

None == <<>>

Abs(a) == IF a < 0 THEN -a ELSE a

Sgn(a) == IF a < 0 THEN -1 ELSE IF a > 0 THEN 1 ELSE 0

\* n / d rounded to the nearest integer, halves away from zero (d # 0)
RoundDiv(n, d) == Sgn(n) * Sgn(d) * ((2 * Abs(n) + Abs(d)) \div (2 * Abs(d)))

FMul(a, b) == RoundDiv(a * b, Scale)

FDiv(a, b) == RoundDiv(a * Scale, b)

RECURSIVE SqrtFloor(_, _, _)
\* the largest r in lo..hi with r * r <= n (bisection)
SqrtFloor(n, lo, hi) ==
    IF lo >= hi THEN lo
    ELSE LET mid == (lo + hi + 1) \div 2
         IN  IF mid * mid <= n THEN SqrtFloor(n, mid, hi)
             ELSE SqrtFloor(n, lo, mid - 1)

\* sqrt(n) rounded to the nearest integer
Sqrt(n) ==
    LET r == SqrtFloor(n, 0, 46340)
    IN  IF n - r * r > r THEN r + 1 ELSE r

\* np.linalg.norm of a vector.  A float keeps a relative precision: a vector
\* too long for the squares of its grid values is measured in hundreds of
\* grid units
Norm(v) ==
    IF Abs(v[1]) <= 30000 /\ Abs(v[2]) <= 30000
    THEN Sqrt(v[1] * v[1] + v[2] * v[2])
    ELSE 100 * Sqrt(RoundDiv(v[1], 100) * RoundDiv(v[1], 100)
                    + RoundDiv(v[2], 100) * RoundDiv(v[2], 100))

\* u * b for a factor u of magnitude about 1 and any b, the product taken on
\* the whole and the fractional part of b apart
MulUnit(u, b) ==
    Sgn(u) * Sgn(b) * (Abs(u) * (Abs(b) \div Scale)
                       + RoundDiv(Abs(u) * (Abs(b) % Scale), Scale))

VAdd(u, v) == <<u[1] + v[1], u[2] + v[2]>>

VSub(u, v) == <<u[1] - v[1], u[2] - v[2]>>

VNeg(u) == <<-u[1], -u[2]>>

Zero == <<0, 0>>

-----------------------------------------------------------------------------
(* The external collaborators of the PES *)

\* curvature of the potential along the second coordinate
Kperp == 2

\* The energy/gradient oracle (atoms.get_forces, atoms.get_potential_energy):
\* E = x1^4/4 - x1^2/2 + Kperp x2^2/2, a saddle point at the origin and
\* minima at x1 = +-1.0
Grad(x) == <<FMul(FMul(x[1], x[1]), x[1]) - x[1], Kperp * x[2]>>

Energy(x) ==
    LET s1 == FMul(x[1], x[1])
        s2 == FMul(x[2], x[2])
    IN  RoundDiv(FMul(s1, s1), 4) - RoundDiv(s1, 2) + RoundDiv(Kperp * s2, 2)

\* Constraints.Ufree at a geometry: an orthonormal basis of the free
\* subspace, which may turn with the geometry.  Here it spans both axes and
\* the order of its columns depends on the geometry.
Ufree(x) == IF x[2] % 2 = 0 THEN <<1, 2>> ELSE <<2, 1>>

\* Ufree.T @ v
ToFree(U, v) == <<v[U[1]], v[U[2]]>>

\* finite-difference displacement of NumericalHessian, in grid units
eta == 1

\* sella.hessian_update.update_H for one secant pair: the result satisfies
\* H dx = dg on every axis that moved; H unchanged for a vanishing step;
\* a missing H starts from the identity
SecantEntry(Hm, s, y, i) ==
    IF s[i] # 0 THEN FDiv(y[i], s[i])
    ELSE IF Hm = None THEN Scale ELSE Hm[i]

SecantUpdate(Hm, s, y) ==
    IF s = Zero THEN Hm
    ELSE <<SecantEntry(Hm, s, y, 1), SecantEntry(Hm, s, y, 2)>>

-----------------------------------------------------------------------------
(* BasePES / CartPES *)

NoRecord == [x |-> None, f |-> None, g |-> None, gfree |-> None, h |-> None]

\* dict(x=x.copy(), f=f, g=g.copy()) and last.update(gfree=gfree, h=h);
\* without constraints drdx is empty and h = g
NewRecord(x) ==
    [x |-> x, f |-> <<Energy(x)>>, g |-> Grad(x),
     gfree |-> ToFree(Ufree(x), Grad(x)), h |-> Grad(x)]

\* BasePES.__init__ and CartPES.__init__ at geometry x
NewPES(x) ==
    [pos |-> x, last |-> NoRecord, lastlast |-> NoRecord, neval |-> 0,
     H |-> None, Hred |-> None, lams |-> None, vecs |-> None]

\* A call in progress: the object, the number of oracle evaluations that
\* still succeed before the oracle throws (fuel), the exception raised so
\* far, the oracle evaluations asked for (ncall) and the diagonalizations
\* started (ndiag)
Call(p, fuel) ==
    [p |-> p, fuel |-> fuel, exc |-> "none", ncall |-> 0, ndiag |-> 0]

\* a short-circuit that only asks whether anything was evaluated before
Unchanged_NoCompare(p) == p.last.x # None

\* the short-circuit of BasePES._update
Unchanged(p) == p.last.x # None /\ p.pos = p.last.x

\* CartPES._update (BasePES._update and the derived gradients)
Update(T) ==
    IF T.exc # "none" THEN T
    ELSE IF Unchanged(T.p) THEN T
    ELSE IF T.fuel = 0
         THEN [T EXCEPT !.exc = "OracleError", !.ncall = @ + 1]
    ELSE [T EXCEPT !.p.lastlast = T.p.last,
                   !.p.last = NewRecord(T.p.pos),
                   !.p.neval = @ + 1,
                   !.fuel = @ - 1,
                   !.ncall = @ + 1]

\* the x setter
SetX(T, target) ==
    IF T.exc # "none" THEN T ELSE [T EXCEPT !.p.pos = target]

\* an eigensolver that returns the eigenvalues in the order of the diagonal
EighLams_Unsorted(d) == <<d[1], d[2]>>

\* scipy eigh of a diagonal matrix: eigenvalues ascending, the eigenvector
\* of each is the axis it sits on
EighLams(d) == IF d[1] <= d[2] THEN <<d[1], d[2]>> ELSE <<d[2], d[1]>>

EighVecs(d) == IF d[1] <= d[2] THEN <<1, 2>> ELSE <<2, 1>>

\* Ufree.T @ H @ Ufree
Reduce(U, Hm) == <<Hm[U[1]], Hm[U[2]]>>

\* the H setter
SetH(T, target) ==
    IF T.exc # "none" THEN T
    ELSE IF target = None
         THEN [T EXCEPT !.p.H = None, !.p.Hred = None,
                        !.p.lams = None, !.p.vecs = None]
    ELSE LET Hr == Reduce(Ufree(T.p.pos), target)
         IN  [T EXCEPT !.p.H = target, !.p.Hred = Hr,
                       !.p.lams = EighLams(Hr), !.p.vecs = EighVecs(Hr)]

\* CartPES.update_H: dx is taken before self.g is read, dg after it; when
\* the read evaluates, lastlast is by then the former last, and a record of
\* None there makes the subtraction a TypeError
UpdateH(T) ==
    IF T.exc # "none" THEN T
    ELSE IF T.p.lastlast.x = None THEN T
    ELSE LET s  == VSub(T.p.pos, T.p.lastlast.x)
             T1 == Update(T)
         IN  IF T1.exc # "none" THEN T1
             ELSE IF T1.p.lastlast.g = None THEN [T1 EXCEPT !.exc = "TypeError"]
             ELSE SetH(T1, SecantUpdate(T1.p.H, s,
                                        VSub(T1.p.last.g, T1.p.lastlast.g)))

\* BasePES._calc_eg: evaluate at x, then put the geometry back; an oracle
\* exception leaves the geometry at x
CalcEg(T, x) ==
    IF T.exc # "none" THEN T
    ELSE LET pos0 == T.p.pos
             T1   == Update(Update(SetX(T, x)))
         IN  IF T1.exc # "none" THEN T1 ELSE [T1 EXCEPT !.p.pos = pos0]

\* the geometry NumericalHessian probes along axis k from x
ProbePoint(x, k) == IF k = 1 THEN <<x[1] + eta, x[2]>> ELSE <<x[1], x[2] + eta>>

RECURSIVE Probe(_, _, _)
\* rayleigh_ritz applying the matrix-free Hessian along each probe direction
Probe(T, x, probes) ==
    IF probes = <<>> THEN T
    ELSE Probe(CalcEg(T, ProbePoint(x, Head(probes))), x, Tail(probes))

InSeq(k, sq) == \E j \in 1..Len(sq) : sq[j] = k

\* the finite-difference curvature along axis k at x
Curvature(x, k) == FDiv(Grad(ProbePoint(x, k))[k] - Grad(x)[k], eta)

RitzEntry(Hm, x, probes, k) ==
    IF InSeq(k, probes) THEN Curvature(x, k)
    ELSE IF Hm = None THEN Scale ELSE Hm[k]

\* update_H(self.H, Vs, AVstilde): the true curvature on the probed axes
RitzUpdate(Hm, x, probes) ==
    <<RitzEntry(Hm, x, probes, 1), RitzEntry(Hm, x, probes, 2)>>

\* a diag that leaves the records of its probes in place
Restore_Skipped(T, lastlast, last) == T

\* restoring the evaluation records at the end of diag
Restore(T, lastlast, last) ==
    IF T.exc # "none" THEN T
    ELSE [T EXCEPT !.p.lastlast = lastlast, !.p.last = last]

\* v0 = self.gfree.copy(), read only when Hred is None
DiagFirst(T) == IF T.p.Hred = None THEN Update(T) ELSE T

\* rayleigh_ritz returns, or raises when the eigensolver fails
DiagSolve(T, solverOk) ==
    IF T.exc = "none" /\ ~solverOk THEN [T EXCEPT !.exc = "SolverError"] ELSE T

\* self.H = update_H(self.H, Vs, AVstilde)
DiagSetH(T, x0, probes) ==
    IF T.exc # "none" THEN T ELSE SetH(T, RitzUpdate(T.p.H, x0, probes))

\* BasePES.diag; probes are the directions the eigensolver asks for,
\* solverOk whether it returns
Diag(T, probes, solverOk) ==
    IF T.exc # "none" THEN T
    ELSE Restore(DiagSetH(SetX(DiagSolve(Probe(Update(DiagFirst(
                     [T EXCEPT !.ndiag = @ + 1])), T.p.pos, probes), solverOk),
                               T.p.pos), T.p.pos, probes),
                 T.p.lastlast, T.p.last)

\* the accessors f, g, gfree, h (one _update) and forces (_update, then g)
Read(T, q) == IF q = "forces" THEN Update(Update(T)) ELSE Update(T)

Quantities == {"f", "g", "gfree", "h", "forces"}

-----------------------------------------------------------------------------
(* rs_newton_irc *)

NewtonMaxIter == 100

\* the Cartesian axis of reduced eigenvector i: column i of pes.Ufree @ pes.vecs
CartAxis(p, i) == Ufree(p.pos)[p.vecs[i]]

\* the diagonal of Hmw on axis a.  eigh(Hmw) of this diagonal matrix gives
\* these entries and the axes; the order of the columns does not enter
\* vecs @ (...), so the entries are used axis by axis
HmwEntry(p, sqrtm, a) ==
    LET i == CHOOSE j \in 1..2 : CartAxis(p, j) = a
    IN  RoundDiv(p.lams[i], sqrtm[a] * sqrtm[a])

\* abs(Li) > 1e-8: a grid unit is far above 1e-8, so every nonzero entry stays
Retained(Li) == Abs(Li) > 0

\* np.abs(L[ind]) on the retained axes, 0 marking a dropped axis
AbsL(p, sqrtm) ==
    LET l1 == HmwEntry(p, sqrtm, 1)
        l2 == HmwEntry(p, sqrtm, 2)
    IN  <<IF Retained(l1) THEN Abs(l1) ELSE 0,
          IF Retained(l2) THEN Abs(l2) ELSE 0>>

EpsEntry(C, xi, a) ==
    IF C.L[a] = 0 THEN 0
    ELSE -FDiv(C.Vg[a] + FMul(xi, C.Vd1[a]), C.L[a] + xi)

\* epsmw = -vecs @ ((Vg + xi * Vd1) / (L + xi))
EpsAt(C, xi) == <<EpsEntry(C, xi, 1), EpsEntry(C, xi, 2)>>

\* one entry of Vd1 / (L + xi) - (Vg + xi * Vd1) / (L + xi)**2, negated; the
\* square is divided out in two steps so a small L + xi does not round to 0
DEpsEntry(C, xi, a) ==
    IF C.L[a] = 0 THEN 0
    ELSE -(FDiv(C.Vd1[a], C.L[a] + xi)
           - FDiv(FDiv(C.Vg[a] + FMul(xi, C.Vd1[a]), C.L[a] + xi), C.L[a] + xi))

DEpsAt(C, xi) == <<DEpsEntry(C, xi, 1), DEpsEntry(C, xi, 2)>>

\* eps = epsmw / sqrtm
Unweight(v, sqrtm) == <<RoundDiv(v[1], sqrtm[1]), RoundDiv(v[2], sqrtm[2])>>

\* the unshifted step accepted on the trust radius as well
Accept_OnBound(mag, dx) == mag <= dx

\* d2mw_mag < dx: the unshifted step is accepted
Accept(mag, dx) == mag < dx

\* abs(d2mw_mag - dx) < 1e-14 * dx: the tolerance is below one grid unit for
\* every dx the grid holds, so only equal grid values are within it
Converged(mag, dx) == Abs(mag - dx) = 0

\* np.nextafter(a, b) on the grid
NextAfter(a, b) == IF b > a THEN a + 1 ELSE IF b < a THEN a - 1 ELSE a

NewtonFail == [exc |-> "RuntimeError", eps |-> Zero, xi |-> 0,
               bound_clip |-> FALSE, mag |-> 0, how |-> "failed"]

NewtonDone(epsmw, sqrtm, xi, mag, how) ==
    [exc |-> "none", eps |-> Unweight(epsmw, sqrtm), xi |-> xi,
     bound_clip |-> TRUE, mag |-> mag, how |-> how]

RECURSIVE NewtonLoop(_, _, _, _)

\* lines 62-70: the next xi from the Newton proposal xi1 (xi + dxi, infinite
\* when inf # 0), kept inside the bracket by bisection or by doubling
NextXi(S, inf, xi1, lower, upper) ==
    IF inf = 0 /\ ~(xi1 <= lower \/ (upper # None /\ xi1 >= upper[1]))
    THEN xi1
    ELSE IF upper = None THEN S.xi + (S.xi - lower)
    ELSE RoundDiv(upper[1] + lower, 2)

\* lines 59-70 with the bracket updated: stop on a collapsed bracket
\* ("collapsed"), else go round again
NewtonBracket(C, sqrtm, it, S, epsmw, mag, inf, dxi, lower, upper) ==
    IF upper # None /\ NextAfter(lower, upper[1]) >= upper[1]
    THEN NewtonDone(epsmw, sqrtm, S.xi, mag, "collapsed")
    ELSE IF inf > 0 /\ upper = None THEN NewtonFail
    ELSE NewtonLoop(C, sqrtm, it + 1,
                    [xi |-> NextXi(S, inf, S.xi + dxi, lower, upper),
                     xilower |-> lower, xiupper |-> upper])

\* lines 54-57: dxi < 0 sets xiupper, dxi > 0 sets xilower
NewtonSign(C, sqrtm, it, S, epsmw, mag, inf, dxi) ==
    NewtonBracket(C, sqrtm, it, S, epsmw, mag, inf, dxi,
                  IF inf > 0 \/ (inf = 0 /\ dxi > 0) THEN S.xi ELSE S.xilower,
                  IF inf < 0 \/ (inf = 0 /\ dxi < 0) THEN <<S.xi>> ELSE S.xiupper)

\* line 52: dxi = (dx - d2mw_mag) / dd2mw_mag.  A derivative that rounds to
\* zero is a vanishing negative one: dxi is infinite, of the sign of mag - dx
NewtonDxi(C, sqrtm, it, S, epsmw, mag, dd2) ==
    NewtonSign(C, sqrtm, it, S, epsmw, mag,
               IF dd2 = 0 THEN Sgn(mag - C.dx) ELSE 0,
               IF dd2 = 0 THEN 0 ELSE FDiv(C.dx - mag, dd2))

\* lines 48-51: the convergence test and the derivative of the norm,
\* (d2mw / d2mw_mag) @ depsmw
NewtonNorm(C, sqrtm, it, S, epsmw, d2mw, mag, depsmw) ==
    IF Converged(mag, C.dx)
    THEN NewtonDone(epsmw, sqrtm, S.xi, mag, "converged")
    ELSE IF mag = 0 THEN NewtonFail
    ELSE NewtonDxi(C, sqrtm, it, S, epsmw, mag,
                   MulUnit(FDiv(d2mw[1], mag), depsmw[1])
                   + MulUnit(FDiv(d2mw[2], mag), depsmw[2]))

\* lines 44-46 for the step epsmw of this xi
NewtonEps(C, sqrtm, it, S, epsmw) ==
    NewtonNorm(C, sqrtm, it, S, epsmw, VAdd(C.d1mw, epsmw),
               Norm(VAdd(C.d1mw, epsmw)), DEpsAt(C, S.xi))

\* A shift beyond XiHuge: the retained part of d2mw is below a grid unit
\* for every input of the model, so d2mw_mag has stopped changing without
\* reaching dx, and the loop only doubles xi until it runs out
XiHuge == 1000 * Scale

\* the root-find on xi (lines 43-72), iteration it, with
\* S = [xi, xilower, xiupper].  A division by zero makes nan of xi, no later
\* comparison holds and the loop runs out: NewtonFail.
NewtonLoop(C, sqrtm, it, S) ==
    IF it = NewtonMaxIter \/ S.xi > XiHuge THEN NewtonFail
    ELSE IF \E a \in 1..2 : C.L[a] # 0 /\ C.L[a] + S.xi = 0 THEN NewtonFail
    ELSE NewtonEps(C, sqrtm, it, S, EpsAt(C, S.xi))

\* lines 33-41: the unshifted step epsmw, accepted or handed to the root-find
NewtonStart(C, sqrtm, xi, epsmw, mag) ==
    IF Accept(mag, C.dx)
    THEN [exc |-> "none", eps |-> Unweight(epsmw, sqrtm), xi |-> xi,
          bound_clip |-> FALSE, mag |-> mag, how |-> "unshifted"]
    ELSE NewtonLoop(C, sqrtm, 0, [xi |-> xi, xilower |-> 0, xiupper |-> None])

NewtonUnshifted(C, sqrtm, xi, epsmw) ==
    NewtonStart(C, sqrtm, xi, epsmw, Norm(VAdd(C.d1mw, epsmw)))

NewtonInput(C, sqrtm, xi) == NewtonUnshifted(C, sqrtm, xi, EpsAt(C, 0))

\* gmw = g / sqrtm, d1mw = d1 * sqrtm; the eigenvectors are the axes, so
\* Vg and Vd1 are gmw and d1mw on the retained axes
Weighted(p, sqrtm, g, d1mw, dx) ==
    [L |-> AbsL(p, sqrtm),
     Vg |-> <<RoundDiv(g[1], sqrtm[1]), RoundDiv(g[2], sqrtm[2])>>,
     Vd1 |-> d1mw, d1mw |-> d1mw, dx |-> dx]

\* rs_newton_irc(pes, sqrtm, g, d1, dx, xi): [exc, eps, xi, bound_clip], with
\* the d2mw_mag of the returned step (mag) and the exit taken (how)
rs_newton_irc(p, sqrtm, g, d1, dx, xi) ==
    NewtonInput(Weighted(p, sqrtm, g, <<d1[1] * sqrtm[1], d1[2] * sqrtm[2]>>, dx),
                sqrtm, xi)

-----------------------------------------------------------------------------
(* IRC *)

InnerMaxIter == 100

\* IRC.__init__ defaults: dx=0.1, irctol=1e-2, self.xi = 1.
DefaultDx == Scale \div 10

DefaultIrctol == Scale \div 100

DefaultXi == Scale

\* IRC.__init__ around the CartPES p, for atoms of square-root masses sqrtm.
\* d1ref names the array self.d1 is bound to: its own or the one of v0ts.
NewIRC(p, sqrtm) ==
    [irctol |-> DefaultIrctol, dx |-> DefaultDx, sqrtm |-> sqrtm,
     x0 |-> p.pos, v0ts |-> None, H0 |-> None, peslast |-> None,
     xi |-> DefaultXi, first |-> TRUE,
     d1 |-> None, d1ref |-> "own",
     sx0 |-> None, g1 |-> None, n |-> 0, nsteps |-> 0]

\* an irun that takes any direction
ValidDirection_Any(direction) == TRUE

ValidDirection(direction) == direction \in {"forward", "reverse"}

\* the branch of irun: the anchor has been diagonalized before
Initialized(I) == I.v0ts # None

\* vecs[:, 0] of eigh(H / outer(sqrtm, sqrtm)): the axis of the lowest
\* mass-weighted curvature
LowestAxis(Hm, sqrtm) ==
    IF RoundDiv(Hm[1], sqrtm[1] * sqrtm[1]) <= RoundDiv(Hm[2], sqrtm[2] * sqrtm[2])
    THEN 1 ELSE 2

\* self.dx * vecs[:, 0] / self.sqrtm
SaddleVector(Hm, sqrtm, dx) ==
    IF LowestAxis(Hm, sqrtm) = 1 THEN <<RoundDiv(dx, sqrtm[1]), 0>>
    ELSE <<0, RoundDiv(dx, sqrtm[2])>>

\* the initialization branch of irun, after diag returned in T
Snapshot(I, T) ==
    [I EXCEPT !.v0ts = SaddleVector(T.p.H, I.sqrtm, I.dx),
              !.H0 = T.p.H,
              !.peslast = T.p.last]

\* the restart branch of irun
RestoreAnchor(T, I) ==
    LET T1 == SetH(SetX(T, I.x0), I.H0)
    IN  [T1 EXCEPT !.p.last = I.peslast]

\* self.d1 = self.v0ts, without the copy: d1 is bound to the array of v0ts
StartDirection_NoCopy(I, direction) ==
    [I EXCEPT !.d1 = IF direction = "forward" THEN I.v0ts ELSE VNeg(I.v0ts),
              !.d1ref = "v0ts",
              !.first = TRUE,
              !.nsteps = 0]

\* self.d1 = self.v0ts.copy() / -self.v0ts.copy(), and self.first = True
StartDirection(I, direction) ==
    [I EXCEPT !.d1 = IF direction = "forward" THEN I.v0ts ELSE VNeg(I.v0ts),
              !.d1ref = "own",
              !.first = TRUE,
              !.nsteps = 0]

\* self.d1 += eps, in place: the array of v0ts changes with it when d1 is
\* bound to it
AddInPlace(I, eps) ==
    [I EXCEPT !.d1 = VAdd(I.d1, eps),
              !.v0ts = IF I.d1ref = "v0ts" THEN VAdd(I.d1, eps) ELSE @]

\* v with its components taken a hundredfold when they are small: a float
\* keeps its relative precision for a short vector, the grid does not
Magnified(v) ==
    IF Abs(v[1]) <= 300 /\ Abs(v[2]) <= 300
    THEN <<100 * v[1], 100 * v[2]>> ELSE v

\* w / np.linalg.norm(w); the norm must not be 0
UnitOf(w) == <<FDiv(w[1], Norm(w)), FDiv(w[2], Norm(w))>>

\* v / np.linalg.norm(v); the norm must not be 0
Normalized(v) == UnitOf(Magnified(v))

\* abs(1 - dot) < irctol for dot = |d1m . g1m| of the normalized mass-weighted
\* displacement and gradient (Pfree is the identity: Ufree spans both axes).
\* A vanishing vector normalizes to nan, and no comparison with nan holds.
Aligned(d1, g1, sqrtm, irctol) ==
    LET d1m == <<d1[1] * sqrtm[1], d1[2] * sqrtm[2]>>
        g1m == <<RoundDiv(g1[1], sqrtm[1]), RoundDiv(g1[2], sqrtm[2])>>
    IN  /\ Norm(d1m) # 0
        /\ Norm(g1m) # 0
        /\ LET u   == Normalized(d1m)
               v   == Normalized(g1m)
               dot == Abs(RoundDiv(u[1] * v[1] + u[2] * v[2], Scale))
           IN  Abs(Scale - dot) < irctol

\* the full d1 taken in the first inner iteration of every step
SkipsNewton_EveryStep(I) == I.n = 0

\* if self.first: the iteration takes the full d1 and calls no solver
SkipsNewton(I) == I.first

\* a loop that ends on alignment alone
LoopEnds_Aligned(bound_clip, aligned) == aligned

\* the loop ends: if bound_clip and abs(1 - dot) < self.irctol: break
LoopEnds(bound_clip, aligned) == bound_clip /\ aligned

\* the predictor of the next step: d1w = -dx * g1w / |g1w|, d1 = d1w / sqrtm
\* (the quotient is taken first: on the grid it keeps the digits the product
\* would round away)
Predictor(g1, sqrtm, dx) ==
    LET g1w == <<RoundDiv(g1[1], sqrtm[1]), RoundDiv(g1[2], sqrtm[2])>>
    IN  IF g1w = Zero THEN Zero
        ELSE <<RoundDiv(FMul(-dx, Normalized(g1w)[1]), sqrtm[1]),
               RoundDiv(FMul(-dx, Normalized(g1w)[2]), sqrtm[2])>>

-----------------------------------------------------------------------------
(* The state machine *)

\* bounds of the model
MaxEval == 5

MaxSteps == 3

MaxProbes == 2

MaxUser == 1

MaxOps == 4

\* geometries the caller sets: the saddle point, one next to a minimum, one
\* off the axes
Geoms == {<<0, 0>>, <<900, 0>>, <<200, 101>>}

\* square roots of the masses of the two coordinates
Masses == {<<1, 1>>, <<2, 1>>}

\* Hessians the caller assigns
Hessians == {None, <<-Scale, 2 * Scale>>, <<3 * Scale, Scale>>}

\* probe directions the eigensolver may ask for, in order
ProbeSeqs == {sq \in {<<1>>, <<2, 1>>, <<1, 2, 1>>} : Len(sq) <= MaxProbes}

\* oracle evaluations that succeed before one throws; a diagonalization asks
\* for MaxProbes + 1 at most
Fuels == 0..(MaxProbes + 1)

\* the ways a diagonalization can go: the oracle throws after fuel
\* evaluations, or it never does and the eigensolver returns or fails
Outcomes == {o \in Fuels \X BOOLEAN : o[2] \/ o[1] = MaxProbes + 1}

\* what irun can meet in diag: nothing once the anchor is diagonalized, or
\* when the direction is refused
RunsOf(I, direction) ==
    IF I.v0ts # None \/ ~ValidDirection(direction)
    THEN {<<<<>>, <<0, TRUE>>>>} ELSE ProbeSeqs \X Outcomes

Ev(op, arg, T) ==
    [op |-> op, arg |-> arg, out |-> T.exc, ncall |-> T.ncall,
     ndiag |-> T.ndiag, newton |-> FALSE, clip |-> FALSE, aligned |-> FALSE]

\* an IRC driver built on a fresh CartPES; the caller has MaxUser direct
\* calls on the PES left
Init ==
    \E x \in Geoms, m \in Masses :
        /\ pes = NewPES(x)
        /\ irc = NewIRC(NewPES(x), m)
        /\ pc = "idle"
        /\ ev = Ev("init", "", Call(NewPES(x), 0))
        /\ nuser = MaxUser

\* a fresh CartPES with no driver on it, and MaxOps calls on it left
InitPES ==
    \E x \in Geoms :
        /\ pes = NewPES(x)
        /\ irc = None
        /\ pc = "idle"
        /\ ev = Ev("init", "", Call(NewPES(x), 0))
        /\ nuser = MaxOps

\* one of the caller's direct calls is used up
UserCall == nuser > 0 /\ nuser' = nuser - 1

\* pes.x = target
UserSetX(target) ==
    /\ pc = "idle"
    /\ UserCall
    /\ LET T == SetX(Call(pes, 0), target)
       IN  /\ pes' = T.p
           /\ ev' = Ev("setx", "", T)
    /\ UNCHANGED <<irc, pc>>

\* pes.f, pes.g, pes.gfree, pes.h, pes.forces
UserRead(q, fuel) ==
    /\ pc = "idle"
    /\ UserCall
    /\ LET T == Read(Call(pes, fuel), q)
       IN  /\ pes' = T.p
           /\ ev' = Ev("read", "", T)
    /\ UNCHANGED <<irc, pc>>

\* pes.H = target
UserSetH(target) ==
    /\ pc = "idle"
    /\ UserCall
    /\ LET T == SetH(Call(pes, 0), target)
       IN  /\ pes' = T.p
           /\ ev' = Ev("seth", "", T)
    /\ UNCHANGED <<irc, pc>>

\* pes.update_H()
UserUpdateH(fuel) ==
    /\ pc = "idle"
    /\ UserCall
    /\ LET T == UpdateH(Call(pes, fuel))
       IN  /\ pes' = T.p
           /\ ev' = Ev("update_H", "", T)
    /\ UNCHANGED <<irc, pc>>

\* pes.diag()
UserDiag(probes, fuel, solverOk) ==
    /\ pc = "idle"
    /\ UserCall
    /\ LET T == Diag(Call(pes, fuel), probes, solverOk)
       IN  /\ pes' = T.p
           /\ ev' = Ev("diag", "", T)
    /\ UNCHANGED <<irc, pc>>

\* lines 124-131 and 138-143: the first irun, diag having ended in T
IRunInit(direction, T) ==
    /\ pes' = T.p
    /\ ev' = Ev("irun", direction, T)
    /\ IF T.exc # "none"
       THEN UNCHANGED <<irc, pc>>
       ELSE /\ irc' = StartDirection(Snapshot(irc, T), direction)
            /\ pc' = "ready"

\* lines 132-143: a later irun, the anchor restored in T
IRunRestart(direction, T) ==
    /\ pes' = T.p
    /\ ev' = Ev("irun", direction, T)
    /\ irc' = StartDirection(irc, direction)
    /\ pc' = "ready"

\* IRC.irun(direction=direction), up to the return of the step generator
IRun(direction, probes, fuel, solverOk) ==
    /\ pc = "idle"
    /\ UNCHANGED nuser
    /\ pes.neval < MaxEval
    /\ IF ~ValidDirection(direction)
       THEN /\ ev' = [Ev("irun", direction, Call(pes, 0)) EXCEPT !.out = "ValueError"]
            /\ UNCHANGED <<pes, irc, pc>>
       ELSE IF ~Initialized(irc)
       THEN IRunInit(direction, Diag(Call(pes, fuel), probes, solverOk))
       ELSE IRunRestart(direction, RestoreAnchor(Call(pes, fuel), irc))

\* the driver stops asking for steps (converged, or `steps` reached)
EndRun ==
    /\ pc = "ready"
    /\ pc' = "idle"
    /\ ev' = Ev("end", "", Call(pes, 0))
    /\ UNCHANGED <<pes, irc, nuser>>

\* IRC.step(), lines 152-154: the locals before the loop
StepBegin ==
    /\ pc = "ready"
    /\ irc.nsteps < MaxSteps
    /\ pes.neval < MaxEval
    /\ irc' = [irc EXCEPT !.sx0 = pes.pos, !.g1 = pes.last.g, !.n = 0]
    /\ pc' = "inner"
    /\ ev' = Ev("step", "", Call(pes, 0))
    /\ UNCHANGED <<pes, nuser>>

\* lines 169-181: the exit test of the iteration with gradient g1 and
\* alignment al, and what follows the loop when it ends here
IterEnd(I1, E, g1, al, clip) ==
    IF LoopEnds(clip, al)
    THEN /\ irc' = [I1 EXCEPT !.g1 = g1,
                              !.d1 = Predictor(g1, irc.sqrtm, irc.dx),
                              !.d1ref = "own",
                              !.nsteps = @ + 1]
         /\ pc' = "ready"
         /\ ev' = [E EXCEPT !.aligned = al, !.out = "returned"]
    ELSE IF irc.n + 1 = InnerMaxIter
    THEN /\ irc' = [I1 EXCEPT !.g1 = g1, !.n = @ + 1]
         /\ pc' = "idle"
         /\ ev' = [E EXCEPT !.aligned = al, !.out = "RuntimeError"]
    ELSE /\ irc' = [I1 EXCEPT !.g1 = g1, !.n = @ + 1]
         /\ pc' = "inner"
         /\ ev' = [E EXCEPT !.aligned = al, !.out = "continue"]

\* lines 166-167: g1 = self.pes.g.copy() ended in T1, update_H in T2
IterEval(I1, E, T1, T2, clip) ==
    /\ pes' = T2.p
    /\ IF T2.exc # "none"
       THEN /\ irc' = I1
            /\ pc' = "idle"
            /\ ev' = [E EXCEPT !.out = T2.exc, !.ncall = T2.ncall]
       ELSE IterEnd(I1, [E EXCEPT !.ncall = T2.ncall], T1.p.last.g,
                    Aligned(I1.d1, T1.p.last.g, irc.sqrtm, irc.irctol), clip)

IterUpdate(I1, E, T1, clip) == IterEval(I1, E, T1, UpdateH(T1), clip)

\* line 165: self.pes.x = x0 + self.d1, for the IRC fields I1 after lines
\* 156-164
IterMove(I1, clip, fuel) ==
    IterUpdate(I1, [Ev("iter", "", Call(pes, 0)) EXCEPT !.newton = ~SkipsNewton(irc),
                                                       !.clip = clip],
               Update(SetX(Call(pes, fuel), VAdd(irc.sx0, I1.d1))), clip)

\* lines 161-164: the result r of rs_newton_irc
IterNewton(r, fuel) ==
    IF r.exc # "none"
    THEN /\ ev' = [Ev("iter", "", Call(pes, 0)) EXCEPT !.newton = TRUE,
                                                      !.out = r.exc]
         /\ pc' = "idle"
         /\ UNCHANGED <<pes, irc>>
    ELSE IterMove([AddInPlace(irc, r.eps) EXCEPT !.xi = r.xi], r.bound_clip, fuel)

\* one iteration of the loop of IRC.step(), and what follows the loop when
\* this iteration ends it
Iter(fuel) ==
    /\ pc = "inner"
    /\ UNCHANGED nuser
    /\ IF SkipsNewton(irc)
       THEN IterMove([irc EXCEPT !.first = FALSE], TRUE, fuel)
       ELSE IterNewton(rs_newton_irc(pes, irc.sqrtm, irc.g1, irc.d1, irc.dx,
                                     irc.xi), fuel)

Directions == {"forward", "reverse", "sideways"}

\* a PES used on its own
NextPES ==
    \/ \E target \in Geoms : UserSetX(target)
    \/ \E q \in Quantities, fuel \in 0..1 : UserRead(q, fuel)
    \/ \E target \in Hessians : UserSetH(target)
    \/ \E fuel \in 0..1 : UserUpdateH(fuel)
    \/ \E probes \in ProbeSeqs, o \in Outcomes : UserDiag(probes, o[1], o[2])

SpecPES == InitPES /\ [][NextPES]_vars

\* an IRC driver and its PES, which the caller also moves and reads between
\* runs
Next ==
    \/ \E target \in Geoms : UserSetX(target)
    \/ \E q \in Quantities, fuel \in 0..1 : UserRead(q, fuel)
    \/ \E direction \in Directions : \E r \in RunsOf(irc, direction) :
          IRun(direction, r[1], r[2][1], r[2][2])
    \/ EndRun
    \/ StepBegin
    \/ \E fuel \in 0..1 : Iter(fuel)

Spec == Init /\ [][Next]_vars

\* a step() that has been entered runs on: the loop of lines 155-177 is
\* straight-line code of one thread.  This is weak fairness of Iter, spelled
\* out with the condition under which Iter can be taken, pc = "inner"
StepRunsOn ==
    \/ []<>(pc # "inner")
    \/ []<><<\E fuel \in 0..1 : Iter(fuel)>>_vars

SpecStep == Init /\ [][Next]_vars /\ StepRunsOn

-----------------------------------------------------------------------------
(* rs_newton_irc on its own *)

\* Hessians of the PES the solver reads, one with a neglected mode
NewtonHessians == {<<-Scale, 2 * Scale>>, <<3 * Scale, Scale>>, <<0, Scale>>}

\* gradients at the start of the step
NewtonGrads == {Zero, <<-273, 202>>, <<50, 0>>, <<0, -150>>}

\* displacements so far: on the sphere of radius 0.1, inside and outside it
NewtonDisps == {<<100, 0>>, <<200, 0>>, <<50, 0>>, <<60, -80>>, <<0, 100>>, <<30, 40>>}

\* trust radii
NewtonRadii == {DefaultDx, DefaultDx \div 2}

\* warm starts of the shift: the default, results of earlier calls and 0
NewtonShifts == {DefaultXi, 4, 3225, 0}

\* a negative warm start, for the displacements that keep the iterates of the
\* shift inside the range of the grid
NegativeShift == -3 * Scale

NegativeDisps == {<<200, 0>>, <<0, 50>>, <<50, 0>>}

NewtonCall(x, Hm, m, g, d1, dx, xi) ==
    /\ pes = SetH(Call(NewPES(x), 0), Hm).p
    /\ irc = [NewIRC(NewPES(x), m) EXCEPT !.g1 = g, !.d1 = d1, !.dx = dx,
                                         !.xi = xi]
    /\ pc = "newton"
    /\ ev = Ev("init", "", Call(NewPES(x), 0))
    /\ nuser = 0

\* a call rs_newton_irc(pes, sqrtm, g, d1, dx, xi) about to be made
InitNewton ==
    \/ \E x \in {<<0, 0>>, <<200, 101>>}, Hm \in NewtonHessians, m \in Masses,
          g \in NewtonGrads, d1 \in NewtonDisps, dx \in NewtonRadii,
          xi \in NewtonShifts : NewtonCall(x, Hm, m, g, d1, dx, xi)
    \/ \E x \in {<<0, 0>>, <<200, 101>>}, d1 \in NegativeDisps :
          NewtonCall(x, <<-Scale, 2 * Scale>>, <<1, 1>>, Zero, d1, DefaultDx,
                     NegativeShift)

\* what the call gave
NewtonEv(r) ==
    [op |-> "rs_newton_irc", out |-> r.exc, eps |-> r.eps, xi |-> r.xi,
     bound_clip |-> r.bound_clip, mag |-> r.mag, how |-> r.how]

\* the call
Solve ==
    /\ pc = "newton"
    /\ ev' = NewtonEv(rs_newton_irc(pes, irc.sqrtm, irc.g1, irc.d1, irc.dx, irc.xi))
    /\ pc' = "solved"
    /\ UNCHANGED <<pes, irc, nuser>>

NextNewton == Solve

SpecNewton == InitNewton /\ [][NextNewton]_vars

-----------------------------------------------------------------------------
(* C4: what rs_newton_irc returns *)

\* the mass-weighted input of the call made
NewtonArgs ==
    Weighted(pes, irc.sqrtm, irc.g1,
             <<irc.d1[1] * irc.sqrtm[1], irc.d1[2] * irc.sqrtm[2]>>, irc.dx)

\* the norm of the mass-weighted d1 + eps of the unshifted Newton step
UnshiftedNorm == Norm(VAdd(NewtonArgs.d1mw, EpsAt(NewtonArgs, 0)))

NewtonReturned == pc = "solved" /\ ev.out = "none"

\* C4 (as the code has it): rs_newton_irc returns the unshifted step, with
\* bound_clip False and xi unchanged, iff the unshifted norm is strictly
\* below dx.  In every other case in which it returns bound_clip is True, the
\* loop ended either on a step whose norm is dx within the tolerance or on a
\* bracket of the shift that collapsed, and the returned xi is >= 0 when the
\* warm start was.
C4_NewtonReturn ==
    NewtonReturned =>
        /\ (~ev.bound_clip) <=> (UnshiftedNorm < irc.dx)
        /\ ~ev.bound_clip =>
              /\ ev.xi = irc.xi
              /\ ev.eps = Unweight(EpsAt(NewtonArgs, 0), irc.sqrtm)
        /\ ev.bound_clip =>
              /\ ev.how \in {"converged", "collapsed"}
              /\ ev.how = "converged" => ev.mag = irc.dx
              /\ irc.xi >= 0 => ev.xi >= 0

\* C4 witness: a call whose unshifted step has norm dx exactly, and is
\* returned shifted and bound-clipped
C4_AtTheBound ==
    NewtonReturned /\ UnshiftedNorm = irc.dx /\ ev.bound_clip

\* C4 as the claim states it: unshifted iff the norm is <= dx, and otherwise
\* xi >= 0 and the norm of the step is dx within the tolerance
C4_AsClaimed ==
    NewtonReturned =>
        /\ (~ev.bound_clip /\ ev.xi = irc.xi) <=> (UnshiftedNorm <= irc.dx)
        /\ ~(UnshiftedNorm <= irc.dx) =>
              ev.bound_clip /\ ev.xi >= 0 /\ ev.mag = irc.dx

-----------------------------------------------------------------------------
(* C1, C2, C3, C7: the PES *)

\* the records and the counter of evaluations
Cache(p) == <<p.last, p.lastlast, p.neval>>

\* C1: an x assignment never touches the cache; a read made while the
\* geometry equals last.x calls no oracle and leaves last, lastlast and neval
\* as they are; a read at another geometry (or before any evaluation) that
\* returns has called the oracle once, moved last to lastlast, stored the
\* record of the geometry as last and added one to neval.
C1_EvaluateOnChange ==
    [][/\ ev'.op = "setx" => Cache(pes') = Cache(pes)
       /\ (ev'.op = "read" /\ pes.last.x # None /\ pes.pos = pes.last.x) =>
             /\ ev'.ncall = 0
             /\ ev'.out = "none"
             /\ pes' = pes
       /\ (ev'.op = "read" /\ ~(pes.last.x # None /\ pes.pos = pes.last.x)
             /\ ev'.out = "none") =>
             /\ ev'.ncall = 1
             /\ pes'.lastlast = pes.last
             /\ pes'.last.x = pes.pos
             /\ pes'.last.f = <<Energy(pes.pos)>>
             /\ pes'.last.g = Grad(pes.pos)
             /\ pes'.neval = pes.neval + 1
             /\ pes'.pos = pes.pos]_vars

\* C1 witness: a read served from the cache after the geometry had been
\* evaluated at two places
C1_CachedRead ==
    /\ ev.op = "read" /\ ev.ncall = 0 /\ ev.out = "none"
    /\ pes.neval = 2
    /\ pes.lastlast.x # None /\ pes.lastlast.x # pes.last.x

\* C2: a diag that returns leaves last, lastlast and the geometry as they
\* were when it was called, whatever it evaluated in between.
C2_DiagRestores ==
    [][(ev'.op = "diag" /\ ev'.out = "none") =>
          /\ pes'.last = pes.last
          /\ pes'.lastlast = pes.lastlast
          /\ pes'.pos = pes.pos]_vars

\* C2 witness: a diag returned after two probing evaluations, on a PES with
\* two records in its cache
C2_DiagReturned ==
    /\ ev.op = "diag" /\ ev.out = "none" /\ ev.ncall >= 2
    /\ pes.last.x # None /\ pes.lastlast.x # None

\* C3 as the claim states it: a diag that ends in an exception has put last
\* and lastlast back as well.
C3_RestoredOnException ==
    [][(ev'.op = "diag" /\ ev'.out # "none") =>
          /\ pes'.last = pes.last
          /\ pes'.lastlast = pes.lastlast]_vars

\* H, Hred, lams and vecs are all None, or all set with lams ascending and
\* (lams[i], axis vecs[i]) the eigenpairs of Hred
EigenState(p) ==
    \/ p.H = None /\ p.Hred = None /\ p.lams = None /\ p.vecs = None
    \/ /\ p.H # None /\ p.Hred # None /\ p.lams # None /\ p.vecs # None
       /\ p.lams[1] <= p.lams[2]
       /\ {p.vecs[1], p.vecs[2]} = {1, 2}
       /\ \A k \in 1..2 : p.lams[k] = p.Hred[p.vecs[k]]

\* C7: in every state H, Hred, lams and vecs are all None or all set, with
\* lams ascending; an assignment of a matrix to H sets Hred to
\* Ufree^T H Ufree for the Ufree of the geometry at that moment; and only an
\* assignment to H (the setter, update_H, diag) changes Hred, lams or vecs.
C7_EigenCaches ==
    [][/\ EigenState(pes')
       /\ ((ev'.op = "seth" \/ pes'.H # pes.H) /\ pes'.H # None) =>
             \A k \in 1..2 : pes'.Hred[k] = pes'.H[Ufree(pes'.pos)[k]]
       /\ <<pes'.Hred, pes'.lams, pes'.vecs>> # <<pes.Hred, pes.lams, pes.vecs>>
             => ev'.op \in {"seth", "update_H", "diag"}]_vars

\* C7 witness: a matrix assigned at a geometry whose Ufree swaps the axes,
\* with eigenvalues that had to be sorted
C7_MatrixAssigned ==
    /\ ev.op = "seth" /\ pes.H # None
    /\ pes.Hred # pes.H
    /\ pes.lams # pes.Hred

-----------------------------------------------------------------------------
(* C5, C6, C8, C9, C10: the IRC driver *)

\* C5: an irun on an IRC that has its anchor puts the PES back on it
\* (x = x0, H = H0, last = peslast), sets d1 to +v0ts or -v0ts and the first
\* flag, and runs neither a diagonalization nor the oracle; and once taken,
\* x0, v0ts, H0 and peslast are changed by no step.
C5_RestartFromAnchor ==
    [][/\ (ev'.op = "irun" /\ ev'.out = "none" /\ irc.v0ts # None) =>
             /\ pes'.pos = irc.x0
             /\ pes'.H = irc.H0
             /\ pes'.last = irc.peslast
             /\ ev'.arg = "forward" => irc'.d1 = irc.v0ts
             /\ ev'.arg = "reverse" => irc'.d1 = VNeg(irc.v0ts)
             /\ irc'.first
             /\ ev'.ncall = 0 /\ ev'.ndiag = 0
       /\ irc.v0ts # None =>
             /\ irc'.v0ts = irc.v0ts
             /\ irc'.H0 = irc.H0
             /\ irc'.peslast = irc.peslast
             /\ irc'.x0 = irc.x0]_vars

\* C5 witness: a restart in the reverse direction after steps that called
\* the Newton solver and updated the Hessian
C5_Restarted ==
    /\ ev.op = "irun" /\ ev.out = "none" /\ ev.ndiag = 0 /\ ev.arg = "reverse"
    /\ irc.xi # DefaultXi
    /\ pes.lastlast.x # None

\* C6: an irun with a direction other than 'forward' and 'reverse' raises
\* ValueError and nothing else happens: no diagonalization, no evaluation,
\* the PES and the IRC unchanged; and a ValueError is raised for no other
\* direction.
C6_InvalidDirection ==
    [][ev'.op = "irun" =>
          /\ ev'.arg \notin {"forward", "reverse"} =>
                /\ ev'.out = "ValueError"
                /\ ev'.ncall = 0 /\ ev'.ndiag = 0
                /\ pes' = pes /\ irc' = irc /\ pc' = pc
          /\ ev'.arg \in {"forward", "reverse"} => ev'.out # "ValueError"]_vars

\* C6 witness: 'sideways' refused by an IRC that has its anchor and has
\* taken steps
C6_Refused ==
    /\ ev.op = "irun" /\ ev.arg = "sideways" /\ ev.out = "ValueError"
    /\ irc.v0ts # None /\ irc.xi # DefaultXi

\* C8 (as the code has it): the only inner iteration that does not call
\* rs_newton_irc is the first one of the first step after irun; it moves the
\* PES by the full d1 and is bound-clipped.  Every other iteration, the first
\* one of every later step included, calls rs_newton_irc.
C8_FirstStepOnly ==
    [][ev'.op = "iter" =>
          /\ ev'.newton <=> ~(irc.n = 0 /\ irc.nsteps = 0)
          /\ ~ev'.newton =>
                /\ ev'.clip
                /\ pes'.pos = VAdd(irc.sx0, irc.d1)]_vars

\* C8 witness: the first inner iteration of a later step has called the
\* solver
C8_LaterStepCallsNewton ==
    /\ ev.op = "iter" /\ ev.newton /\ ev.out = "continue"
    /\ irc.n = 1 /\ irc.nsteps >= 1

\* C8 as the claim states it: the first inner iteration of every step calls
\* no solver and is bound-clipped.
C8_EveryStep ==
    [][(ev'.op = "iter" /\ irc.n = 0) => (~ev'.newton /\ ev'.clip)]_vars

\* C9 as the claim states it: once the anchor is taken, peslast is the
\* evaluation record at x0 and H0 a Hessian.
C9_SnapshotAtAnchor ==
    irc.v0ts # None =>
        /\ irc.H0 # None
        /\ irc.peslast.x = irc.x0
        /\ irc.peslast.f = <<Energy(irc.x0)>>
        /\ irc.peslast.g = Grad(irc.x0)

\* the mass-weighted length of d
WeightedLength(d, sqrtm) == Norm(<<d[1] * sqrtm[1], d[2] * sqrtm[2]>>)

\* what one iteration of the loop may do: it is one of the first 100; it
\* ends the step, with d1 replaced by the predictor of mass-weighted length
\* dx (to the two grid units its quotients round by), only when it was
\* bound-clipped and aligned; an iteration that is not both goes on to the
\* next one, or, if it is the 100th, raises RuntimeError with d1 left as the
\* loop made it
InnerLoopStep ==
    ev'.op = "iter" =>
        /\ irc.n < InnerMaxIter
        /\ ev'.out = "returned" =>
              /\ ev'.clip /\ ev'.aligned
              /\ irc'.d1 = Predictor(pes'.last.g, irc.sqrtm, irc.dx)
              /\ Abs(WeightedLength(irc'.d1, irc.sqrtm) - irc.dx) <= 2
        /\ ev'.out = "continue" =>
              /\ ~(ev'.clip /\ ev'.aligned)
              /\ irc'.n = irc.n + 1 /\ irc'.n < InnerMaxIter
              /\ pc' = "inner"
        /\ (ev'.out = "RuntimeError" /\ irc'.n # irc.n) =>
              /\ irc'.n = InnerMaxIter
              /\ ~(ev'.clip /\ ev'.aligned)
              /\ irc'.d1 = VSub(pes'.pos, irc.sx0)
              /\ pc' = "idle"
        /\ (ev'.aligned /\ ~ev'.clip) => ev'.out # "returned"

\* C10: step() runs 100 inner iterations at most and always terminates; it
\* returns, with d1 replaced by the steepest-descent predictor of
\* mass-weighted length dx, only from an iteration that was bound-clipped and
\* aligned; when none of the 100 is both it raises RuntimeError and d1 is not
\* replaced; an aligned iteration that is not bound-clipped never ends the
\* loop.
C10_InnerLoop ==
    /\ [][InnerLoopStep]_vars
    /\ (pc = "inner") ~> (pc # "inner")

\* C10 witness: the 100th iteration ended the step with a RuntimeError
C10_LoopExhausted ==
    /\ ev.op = "iter" /\ ev.out = "RuntimeError"
    /\ irc.n = InnerMaxIter

====
